---- MODULE Spec2Model ----
(***************************************************************************)
(* Model of the dynamic form builder: the default-value deriver, the       *)
(* schema synthesizer (yup), the array-field widget and the form session   *)
(* held by SimpleFormBuilder (react-hook-form with the yup resolver).      *)
(***************************************************************************)
EXTENDS Integers, Sequences, FiniteSets, TLC

(***************************************************************************)
(* JavaScript values.  Every value is a record tagged by its kind (k) so   *)
(* that values of different JavaScript types can be compared.              *)
(***************************************************************************)
Vundef == [k |-> "undefined", v |-> 0]
Vnull == [k |-> "null", v |-> 0]
Vnan == [k |-> "nan", v |-> 0]
Vstr(s) == [k |-> "str", v |-> s]
Vnum(n) == [k |-> "num", v |-> n]
Vbool(b) == [k |-> "bool", v |-> b]
Varr(a) == [k |-> "arr", v |-> a]
Vfile(id) == [k |-> "file", v |-> id]
\* a key that an object does not have (as opposed to a key holding undefined)
Absent == [k |-> "absent", v |-> 0]

\* JavaScript truthiness, as used by `x || y` and `if (x)`
Truthy(x) ==
  CASE x.k \in {"undefined", "null", "nan", "absent"} -> FALSE
    [] x.k = "str" -> x.v # ""
    [] x.k = "num" -> x.v # 0
    [] x.k = "bool" -> x.v
    [] OTHER -> TRUE

\* x ?? y
CoalesceTruthy(x, y) == IF Truthy(x) THEN x ELSE y

Coalesce(x, y) == IF x.k \in {"undefined", "null"} THEN y ELSE x

\* x || y
OrElse(x, y) == IF Truthy(x) THEN x ELSE y

\* message || default, for message overrides (an absent message is "")
MsgOr(m, d) == IF m # "" THEN m ELSE d

(***************************************************************************)
(* Field descriptors (FieldConfig).  Optional attributes that are absent   *)
(* hold Vundef (values), "" (strings) or FALSE (flags), which is what the  *)
(* code's tests (`if (field.x)`, `x !== undefined`, `x || d`) read.        *)
(* customValidation is the name of a behaviour of CustomValidationResult.  *)
(***************************************************************************)
Base(n, t) ==
  [name |-> n, label |-> "Field", type |-> t,
   required |-> FALSE, requiredMessage |-> "",
   disableError |-> FALSE, disableErrorMessage |-> FALSE,
   renderComponent |-> FALSE,
   customValidation |-> "none", customValidationMessage |-> "",
   defaultValue |-> Vundef,
   maxlength |-> Vundef, maxlengthMessage |-> "",
   regex |-> "", regexMessage |-> "",
   min |-> Vundef, max |-> Vundef, minMessage |-> "", maxMessage |-> "",
   checkedValue |-> Vundef, uncheckedValue |-> Vundef,
   minDate |-> "", maxDate |-> "",
   multiple |-> FALSE,
   itemType |-> "text", itemConfig |-> [defaultValue |-> Vundef,
                                        uncheckedValue |-> Vundef,
                                        multiple |-> FALSE],
   minItems |-> Vundef, maxItems |-> Vundef,
   minItemsMessage |-> "", maxItemsMessage |-> "",
   maxSelections |-> Vundef]

StringKinds == {"text", "textarea", "email", "password", "url", "date"}
SelectKinds == {"select", "searchable-select"}
KnownKinds == StringKinds \cup SelectKinds \cup
              {"multi-select", "checkbox", "file", "number", "array"}

(***************************************************************************)
(* generateDefaultValues: one entry per field of a recognised kind; the    *)
(* switch has no default branch, so another type writes no entry.  A later *)
(* field of the same name overwrites an earlier one.                       *)
(***************************************************************************)
DefaultFor(f) ==
  CASE f.type \in StringKinds -> OrElse(f.defaultValue, Vstr(""))
    [] f.type \in SelectKinds -> OrElse(f.defaultValue, Vstr(""))
    [] f.type = "multi-select" -> OrElse(f.defaultValue, Varr(<<>>))
    [] f.type = "checkbox" ->
         IF f.uncheckedValue # Vundef
           THEN Coalesce(f.defaultValue, f.uncheckedValue)
           ELSE Coalesce(f.defaultValue, Vbool(FALSE))
    [] f.type = "file" ->
         OrElse(f.defaultValue, IF f.multiple THEN Varr(<<>>) ELSE Vnull)
    [] f.type = "number" -> Coalesce(f.defaultValue, Vundef)
    [] f.type = "array" -> OrElse(f.defaultValue, Varr(<<>>))
    [] OTHER -> Absent

RECURSIVE DefaultsUpTo(_, _, _)
DefaultsUpTo(fields, i, names) ==
  IF i = 0 THEN [n \in names |-> Absent]
  ELSE LET prev == DefaultsUpTo(fields, i - 1, names)
           f == fields[i]
       IN IF f.type \in KnownKinds
            THEN [prev EXCEPT ![f.name] = DefaultFor(f)]
            ELSE prev

generateDefaultValues(fields, names) == DefaultsUpTo(fields, Len(fields), names)

\* Object.keys of an object modelled as a function to values or Absent
Keys(obj) == {n \in DOMAIN obj : obj[n] # Absent}

(***************************************************************************)
(* Strings: the library's format checks are decided on a small universe of *)
(* representative inputs.                                                  *)
(***************************************************************************)
EmailShaped == {"a@b.co"}
UrlShaped == {"http://x.y"}

\* field.regex: "" (absent) or the name of a pattern; "lower" is /^[a-z]+$/
RegexMatches(re, s) ==
  CASE re = "lower" -> s \in {"ab", "abcdef"}
    [] OTHER -> FALSE

\* the numeric reading of a string after removal of whitespace (+parsed)
ParseNumber(s) ==
  CASE s = "0" -> Vnum(0)
    [] s = "5" -> Vnum(5)
    [] s = "15" -> Vnum(15)
    [] s = "25" -> Vnum(25)
    [] s = "150" -> Vnum(150)
    [] OTHER -> Vnan

\* new Date(s).getTime(): -1 stands for NaN (an invalid date)
DateTime(s) ==
  CASE s = "2024-01-05" -> 5
    [] s = "2024-01-15" -> 15
    [] s = "2024-01-25" -> 25
    [] OTHER -> -1

NumToString(n) == ToString(n)

(***************************************************************************)
(* customValidation behaviours.  The outcome is how the call ended         *)
(* ("return", "throw", "resolve", "reject") and the value it produced.     *)
(***************************************************************************)
Outcome(h, x) == [how |-> h, v |-> x]

CustomValidationResult(behaviour, value) ==
  CASE behaviour = "retTrue" -> Outcome("return", Vbool(TRUE))
    [] behaviour = "retFalse" -> Outcome("return", Vbool(FALSE))
    [] behaviour = "retEmpty" -> Outcome("return", Vstr(""))
    [] behaviour = "retMsg" -> Outcome("return", Vstr("bad value"))
    [] behaviour = "retUndef" -> Outcome("return", Vundef)
    [] behaviour = "retOne" -> Outcome("return", Vnum(1))
    [] behaviour = "throws" -> Outcome("throw", Vundef)
    [] behaviour = "rejects" -> Outcome("reject", Vundef)
    [] behaviour = "resolveTrue" -> Outcome("resolve", Vbool(TRUE))
    [] behaviour = "resolveFalse" -> Outcome("resolve", Vbool(FALSE))
    [] behaviour = "resolveEmpty" -> Outcome("resolve", Vstr(""))
    [] behaviour = "resolveMsg" -> Outcome("resolve", Vstr("bad value"))
    \* (value) => typeof value === "string" && value.length >= 3
    [] behaviour = "minLen3" ->
         Outcome("return", Vbool(value.k = "str" /\ Len(value.v) >= 3))
    \* (value) => Number(value) >= 18
    [] behaviour = "atLeast18" ->
         Outcome("return", Vbool(value.k = "num" /\ value.v >= 18))
    \* () => new Promise(() => {}): the promise never settles
    [] behaviour = "hangs" -> Outcome("pending", Vundef)
    [] OTHER -> Outcome("return", Vundef)

Behaviours == {"retTrue", "retFalse", "retEmpty", "retMsg", "retUndef", "retOne",
               "throws", "rejects", "resolveTrue", "resolveFalse",
               "resolveEmpty", "resolveMsg", "minLen3", "atLeast18"}

\* a test body without the try/catch, a fault counted as a pass
CustomValidationPassesUncaught(f, value) ==
  LET r == CustomValidationResult(f.customValidation, value)
  IN IF r.how \in {"throw", "reject"} THEN TRUE
     ELSE r.v = Vbool(TRUE) \/ r.v = Vstr("")

\* a test body that passes on any truthy result
CustomValidationPassesTruthy(f, value) ==
  LET r == CustomValidationResult(f.customValidation, value)
  IN IF r.how \in {"throw", "reject"} THEN FALSE
     ELSE Truthy(r.v)

\* the body of the "custom-validation" test: try { result = await f(value);
\* return result === true || result === "" } catch { return false }
CustomValidationPasses(f, value) ==
  LET r == CustomValidationResult(f.customValidation, value)
  IN IF r.how \in {"throw", "reject"} THEN FALSE
     ELSE r.v = Vbool(TRUE) \/ r.v = Vstr("")

(***************************************************************************)
(* yup schemas.  A schema is its type, its internal tests (type error,     *)
(* null, undefined, allowed values) and its list of added tests.           *)
(***************************************************************************)
NoError == [type |-> "none", message |-> ""]
FieldError(t, m) == [type |-> t, message |-> m]
SchemaTest(n, m, a) == [name |-> n, message |-> m, arg |-> a]

YupSchema(t, path, inn) ==
  [type |-> t, typeError |-> path \o " must be a " \o t \o " type",
   nullable |-> FALSE, nullMessage |-> path \o " cannot be null",
   optional |-> TRUE, optMessage |-> path \o " is a required field",
   whitelist |-> {}, whiteMessage |-> "",
   inner |-> inn, tests |-> <<>>]

YupMixed(path) == YupSchema("mixed", path, "none")
YupString(path) == YupSchema("string", path, "none")
YupNumber(path) == YupSchema("number", path, "none")
YupBoolean(path) == YupSchema("boolean", path, "none")
YupArray(path, inn) == YupSchema("array", path, inn)

AddTest(s, n, m, a) == [s EXCEPT !.tests = Append(@, SchemaTest(n, m, a))]

\* schema.required(message): not null and not undefined; a string schema
\* also gets the test that the value is not the empty string
Required(s, m) ==
  LET r == [s EXCEPT !.nullable = FALSE, !.nullMessage = m,
                     !.optional = FALSE, !.optMessage = m]
  IN IF s.type = "string" THEN AddTest(r, "required", m, Vundef) ELSE r

Nullable(s) == [s EXCEPT !.nullable = TRUE]

TypeErrorMessage(s, m) == [s EXCEPT !.typeError = m]

\* schema.oneOf(values, message): the values are ADDED to the allowed set
\* and the message replaces the earlier one
\* a oneOf that replaces the allowed values instead of adding to them
OneOfReplacing(s, vals, m) == [s EXCEPT !.whitelist = vals, !.whiteMessage = m]

OneOf(s, vals, m) == [s EXCEPT !.whitelist = @ \cup vals, !.whiteMessage = m]

(***************************************************************************)
(* The schema synthesized for one field (schemaShape[field.name]).         *)
(***************************************************************************)
RequiredMessage(f) == MsgOr(f.requiredMessage, f.label \o " is required")

WithRequired(f, s) == IF f.required THEN Required(s, RequiredMessage(f)) ELSE s

WithMaxlength(f, s) ==
  IF Truthy(f.maxlength)
    THEN AddTest(s, "string.max",
                 MsgOr(f.maxlengthMessage,
                       f.label \o " must be at most " \o NumToString(f.maxlength.v)
                         \o " characters"),
                 f.maxlength)
    ELSE s

WithRegex(f, s) ==
  IF f.regex # ""
    THEN AddTest(s, "matches",
                 MsgOr(f.regexMessage, f.label \o " format is invalid"),
                 Vstr(f.regex))
    ELSE s

CheckboxSchema(f) ==
  IF f.checkedValue # Vundef /\ f.uncheckedValue # Vundef
    THEN LET base == OneOf(YupMixed(f.name), {f.checkedValue, f.uncheckedValue},
                           f.name \o " must be one of the following values")
         IN IF f.required
              THEN OneOf(base, {f.checkedValue}, RequiredMessage(f))
              ELSE base
    ELSE IF f.required
           THEN OneOf(YupBoolean(f.name), {Vbool(TRUE)}, RequiredMessage(f))
           ELSE YupBoolean(f.name)

DateSchema(f) ==
  LET s0 == WithRequired(f, YupString(f.name))
      s1 == IF f.minDate # ""
              THEN AddTest(s0, "min-date",
                           f.label \o " must be on or after " \o f.minDate,
                           Vstr(f.minDate))
              ELSE s0
  IN IF f.maxDate # ""
       THEN AddTest(s1, "max-date",
                    f.label \o " must be on or before " \o f.maxDate,
                    Vstr(f.maxDate))
       ELSE s1

FileSchema(f) ==
  WithRequired(f, IF f.multiple THEN YupArray(f.name, "mixed")
                                ELSE Nullable(YupMixed(f.name)))

\* a number schema without the min and max tests
NumberSchemaUnbounded(f) ==
  LET s0 == TypeErrorMessage(YupNumber(f.name), f.label \o " must be a number")
  IN IF f.required THEN Required(s0, RequiredMessage(f)) ELSE Nullable(s0)

NumberSchema(f) ==
  LET s0 == TypeErrorMessage(YupNumber(f.name), f.label \o " must be a number")
      s1 == IF f.required THEN Required(s0, RequiredMessage(f)) ELSE Nullable(s0)
      s2 == IF f.min.k = "num"
              THEN AddTest(s1, "number.min",
                           MsgOr(f.minMessage,
                                 f.label \o " must be at least " \o NumToString(f.min.v)),
                           f.min)
              ELSE s1
  IN IF f.max.k = "num"
       THEN AddTest(s2, "number.max",
                    MsgOr(f.maxMessage,
                          f.label \o " must be at most " \o NumToString(f.max.v)),
                    f.max)
       ELSE s2

\* an array schema without the min and max tests
ArraySchemaUnbounded(f) == WithRequired(f, YupArray(f.name, "none"))

ArraySchema(f) ==
  LET s0 == WithRequired(f, YupArray(f.name, "none"))
      s1 == IF f.minItems # Vundef
              THEN AddTest(s0, "array.min",
                           MsgOr(f.minItemsMessage,
                                 f.label \o " must have at least "
                                   \o NumToString(f.minItems.v) \o " items"),
                           f.minItems)
              ELSE s0
  IN IF f.maxItems # Vundef
       THEN AddTest(s1, "array.max",
                    MsgOr(f.maxItemsMessage,
                          f.label \o " must have at most "
                            \o NumToString(f.maxItems.v) \o " items"),
                    f.maxItems)
       ELSE s1

KindSchema(f) ==
  CASE f.type = "email" ->
         WithRegex(f, WithRequired(f,
           AddTest(YupString(f.name), "email",
                   f.label \o " must be a valid email address", Vundef)))
    [] f.type \in {"text", "textarea", "password"} ->
         WithRegex(f, WithMaxlength(f, WithRequired(f, YupString(f.name))))
    [] f.type = "url" ->
         WithRegex(f, WithMaxlength(f, WithRequired(f,
           AddTest(YupString(f.name), "url",
                   f.label \o " must be a valid URL", Vundef))))
    [] f.type \in SelectKinds -> WithRequired(f, YupString(f.name))
    [] f.type = "multi-select" -> WithRequired(f, YupArray(f.name, "string"))
    [] f.type = "checkbox" -> CheckboxSchema(f)
    [] f.type = "date" -> DateSchema(f)
    [] f.type = "file" -> FileSchema(f)
    [] f.type = "number" -> NumberSchema(f)
    [] f.type = "array" -> ArraySchema(f)
    [] OTHER -> YupMixed(f.name)

CustomValidationMessage(f) ==
  MsgOr(f.customValidationMessage, f.label \o " is invalid")

WithCustomValidation(f, s) ==
  IF f.customValidation # "none"
    THEN AddTest(s, "custom-validation", CustomValidationMessage(f), Vundef)
    ELSE s

\* a synthesis that also drops the rules of a field with disableErrorMessage
SynthesizeValidatorSilencing(f) ==
  IF f.disableError \/ f.disableErrorMessage
    THEN YupMixed(f.name)
    ELSE WithCustomValidation(f, KindSchema(f))

SynthesizeValidator(f) ==
  IF f.disableError
    THEN YupMixed(f.name)
    ELSE WithCustomValidation(f, KindSchema(f))

(***************************************************************************)
(* Validation of one value by a schema, as the resolver runs it            *)
(* (schema.validate(values, {abortEarly: false}): the value is cast first, *)
(* the internal tests run before the added tests, and the first error of a *)
(* path is the one the form keeps).                                        *)
(***************************************************************************)
IsAbsent(x) == x.k \in {"undefined", "null"}

CastValue(s, x) ==
  CASE IsAbsent(x) -> x
    [] s.type = "string" ->
         (CASE x.k = "num" -> Vstr(NumToString(x.v))
            [] x.k = "bool" -> Vstr(IF x.v THEN "true" ELSE "false")
            [] x.k = "file" -> Vstr("[object File]")
            [] OTHER -> x)
    [] s.type = "number" ->
         (CASE x.k = "str" -> ParseNumber(x.v)
            [] x.k = "num" -> x
            [] OTHER -> Vnan)
    [] s.type = "boolean" ->
         (CASE x.k = "str" /\ x.v \in {"true", "1"} -> Vbool(TRUE)
            [] x.k = "str" /\ x.v \in {"false", "0"} -> Vbool(FALSE)
            [] x.k = "num" /\ x.v = 1 -> Vbool(TRUE)
            [] x.k = "num" /\ x.v = 0 -> Vbool(FALSE)
            [] OTHER -> x)
    [] OTHER -> x

TypeCheck(s, x) ==
  CASE s.type = "string" -> x.k = "str"
    [] s.type = "number" -> x.k = "num"
    [] s.type = "boolean" -> x.k = "bool"
    [] s.type = "array" -> x.k = "arr"
    [] OTHER -> TRUE

\* the body of one added test; x is the cast value
TestPasses(t, f, x) ==
  CASE t.name = "required" -> IsAbsent(x) \/ x.v # ""
    [] t.name = "string.max" -> IsAbsent(x) \/ Len(x.v) <= t.arg.v
    [] t.name = "matches" -> IsAbsent(x) \/ RegexMatches(t.arg.v, x.v)
    [] t.name = "email" -> IsAbsent(x) \/ x.v = "" \/ x.v \in EmailShaped
    [] t.name = "url" -> IsAbsent(x) \/ x.v = "" \/ x.v \in UrlShaped
    [] t.name = "min-date" ->
         \/ ~Truthy(x)
         \/ /\ DateTime(x.v) >= 0 /\ DateTime(t.arg.v) >= 0
            /\ DateTime(x.v) >= DateTime(t.arg.v)
    [] t.name = "max-date" ->
         \/ ~Truthy(x)
         \/ /\ DateTime(x.v) >= 0 /\ DateTime(t.arg.v) >= 0
            /\ DateTime(x.v) <= DateTime(t.arg.v)
    [] t.name = "number.min" ->
         \/ IsAbsent(x)
         \/ f.customValidation # "none"
         \/ x.v >= t.arg.v
    [] t.name = "number.max" ->
         \/ IsAbsent(x)
         \/ f.customValidation # "none"
         \/ x.v <= t.arg.v
    [] t.name = "array.min" -> IsAbsent(x) \/ Len(x.v) >= t.arg.v
    [] t.name = "array.max" -> IsAbsent(x) \/ Len(x.v) <= t.arg.v
    [] t.name = "custom-validation" -> CustomValidationPasses(f, x)
    [] OTHER -> TRUE

\* the error of the internal tests: type error, null, undefined, allowed values
InternalError(s, x) ==
  CASE ~IsAbsent(x) /\ ~TypeCheck(s, x) -> FieldError("typeError", s.typeError)
    [] x = Vnull /\ ~s.nullable -> FieldError("nullable", s.nullMessage)
    [] x = Vundef /\ ~s.optional -> FieldError("optionality", s.optMessage)
    [] s.whitelist # {} /\ ~IsAbsent(x) /\ x \notin s.whitelist ->
         FieldError("oneOf", s.whiteMessage)
    [] OTHER -> NoError

FailingTests(s, f, x) ==
  {i \in 1..Len(s.tests) : ~TestPasses(s.tests[i], f, x)}

FirstOf(S) == CHOOSE i \in S : \A j \in S : i <= j

\* the elements of an array are validated by the inner schema (of(...))
InnerElementFails(s, e) ==
  CASE s.inner = "string" -> e = Vnull \/ (~IsAbsent(e) /\ e.k \in {"arr"})
    [] s.inner = "mixed" -> e = Vnull
    [] OTHER -> FALSE

InnerError(s, x) ==
  IF s.inner # "none" /\ x.k = "arr"
       /\ \E i \in 1..Len(x.v) : InnerElementFails(s, x.v[i])
    THEN FieldError("inner", "element is invalid")
    ELSE NoError

ValidateValue(s, f, raw) ==
  LET x == CastValue(s, raw)
      e0 == InternalError(s, x)
  IN IF e0 # NoError THEN e0
     ELSE LET failing == FailingTests(s, f, x)
          IN IF failing # {}
               THEN LET t == s.tests[FirstOf(failing)]
                    IN FieldError(t.name, t.message)
               ELSE InnerError(s, x)

\* the error (or NoError) of a field for a value of the session
ValidateField(f, raw) == ValidateValue(SynthesizeValidator(f), f, raw)

(***************************************************************************)
(* The form session.  An object (values, data, errors) is a function on    *)
(* Names; a key the object lacks holds Absent (values) or NoError (errors).*)
(***************************************************************************)
Names == {"f", "s", "x"}

NoData == [n \in Names |-> Absent]
NoErrors == [n \in Names |-> NoError]

FieldNames(fs) == {fs[i].name : i \in DOMAIN fs}

\* schemaShape[field.name] = validator, written for every field in order:
\* the index of the field whose validator a key holds (0: no such key)
RECURSIVE ShapeUpTo(_, _)
ShapeUpTo(fs, i) ==
  IF i = 0 THEN [n \in Names |-> 0]
  ELSE [ShapeUpTo(fs, i - 1) EXCEPT ![fs[i].name] = i]

schemaShape(fs) == ShapeUpTo(fs, Len(fs))

ValueOf(x) == IF x = Absent THEN Vundef ELSE x

\* a resolver that leaves the second field of a form out
ResolverErrorFirstOnly(fs, vals, n) ==
  LET i == schemaShape(fs)[n]
  IN IF i = 0 \/ n = "s" THEN NoError ELSE ValidateField(fs[i], ValueOf(vals[n]))

\* the resolver's error for one key of the schema
ResolverError(fs, vals, n) ==
  LET i == schemaShape(fs)[n]
  IN IF i = 0 THEN NoError ELSE ValidateField(fs[i], ValueOf(vals[n]))

\* yupResolver(schema)(values): the first error of every path
ResolverErrors(fs, vals) == [n \in Names |-> ResolverError(fs, vals, n)]

HasErrors(errs) == \E n \in Names : errs[n] # NoError

\* the validated output the resolver hands to the submit handler: every
\* schema key cast, a key whose cast value is undefined left out, and the
\* keys the schema does not know copied
ResolverValues(fs, vals) ==
  [n \in Names |->
     LET i == schemaShape(fs)[n]
     IN IF i = 0 THEN vals[n]
        ELSE LET c == CastValue(SynthesizeValidator(fs[i]), ValueOf(vals[n]))
             IN IF c = Vundef THEN Absent ELSE c]

\* handleSubmit, first part: the manual checks of one array field, each
\* setError overwriting the one before
ManualArrayError(f, data, old) ==
  LET value == data[f.name]
      len == IF value.k = "arr" THEN Len(value.v) ELSE 0
      e1 == IF f.minItems # Vundef /\ len < f.minItems.v
              THEN FieldError("manual",
                     MsgOr(f.minItemsMessage,
                           f.label \o " must have at least "
                             \o NumToString(f.minItems.v) \o " items"))
              ELSE old
      e2 == IF f.maxItems # Vundef /\ len > f.maxItems.v
              THEN FieldError("manual",
                     MsgOr(f.maxItemsMessage,
                           f.label \o " must have at most "
                             \o NumToString(f.maxItems.v) \o " items"))
              ELSE e1
  IN IF f.required /\ len = 0
       THEN FieldError("manual", RequiredMessage(f))
       ELSE e2

RECURSIVE ManualUpTo(_, _, _, _)
ManualUpTo(fs, i, data, errs) ==
  IF i = 0 THEN errs
  ELSE LET prev == ManualUpTo(fs, i - 1, data, errs)
           f == fs[i]
       IN IF f.type = "array"
            THEN [prev EXCEPT ![f.name] = ManualArrayError(f, data, prev[f.name])]
            ELSE prev

ManualArrayErrors(fs, data, errs) == ManualUpTo(fs, Len(fs), data, errs)

\* form.trigger(name) for every field: the key's error becomes the
\* resolver's error for it, or is removed when the resolver has none
TriggerAll(fs, vals, errs) ==
  [n \in Names |-> IF n \in FieldNames(fs) THEN ResolverError(fs, vals, n)
                                           ELSE errs[n]]

\* the errors of the session when every trigger of the submit handler has
\* resolved: the manual array errors, then the result of each trigger
ErrorsAtDecision(fs, vals, data) ==
  TriggerAll(fs, vals, ManualArrayErrors(fs, data, NoErrors))

\* form.formState.errors as the decision can read it.  formState is the
\* state of the last render: the one before the submit when no render ran
\* since (rendered), or the session's errors when one did.
FormStateErrors(fs, vals, data, rendered) ==
  {rendered, ErrorsAtDecision(fs, vals, data)}

\* hasErrors = Object.keys(errors).length > 0; onSubmit(data) is called iff
\* it is false
SubmitInvokes(seen) == ~HasErrors(seen)

(***************************************************************************)
(* The field lists a session is constructed from.                          *)
(***************************************************************************)
\* the longest array the array widget is driven to
MaxLen == 3

Variants(d) ==
  {[d EXCEPT !.required = r, !.disableError = de] : r \in BOOLEAN, de \in BOOLEAN}

\* every kind, and a type that is not a recognised kind
KindDescriptors == UNION {Variants(Base("f", t)) : t \in KnownKinds \cup {"rating"}}

TextDescriptors ==
  {[Base("f", t) EXCEPT !.required = r, !.maxlength = Vnum(4), !.regex = "lower",
                        !.requiredMessage = "Name is required"] :
     t \in {"text", "email", "url"}, r \in BOOLEAN}

CustomDescriptors ==
  {[Base("f", "text") EXCEPT !.required = r, !.customValidation = b,
                             !.customValidationMessage = m] :
     r \in BOOLEAN, b \in Behaviours, m \in {"", "Custom failed"}}

NumberDescriptors ==
  {[Base("f", "number") EXCEPT !.required = r, !.min = Vnum(18), !.max = Vnum(100),
                               !.customValidation = c, !.defaultValue = d] :
     r \in BOOLEAN, c \in {"none", "atLeast18", "throws"},
     d \in {Vundef, Vnum(0)}}

CheckboxDescriptors ==
  {[Base("f", "checkbox") EXCEPT !.required = r, !.checkedValue = c[1],
                                 !.uncheckedValue = c[2], !.defaultValue = d,
                                 !.requiredMessage = "You must agree"] :
     r \in BOOLEAN,
     c \in {<<Vstr("yes"), Vstr("no")>>, <<Vbool(TRUE), Vbool(FALSE)>>,
            <<Vstr("yes"), Vundef>>, <<Vundef, Vstr("no")>>},
     d \in {Vundef, Vstr("yes")}}

DateDescriptors ==
  {[Base("f", "date") EXCEPT !.required = r, !.minDate = "2024-01-15",
                             !.maxDate = "2024-01-15"] : r \in BOOLEAN}

Items(n) == [i \in 1..n |-> Vstr("ab")]

ArrayBounds ==
  {<<Vundef, Vundef>>, <<Vnum(1), Vnum(2)>>, <<Vnum(0), Vnum(0)>>,
   <<Vnum(2), Vnum(0)>>, <<Vnum(1), Vundef>>, <<Vundef, Vnum(2)>>}

ArrayDescriptors ==
  {[Base("f", "array") EXCEPT !.required = r, !.minItems = b[1], !.maxItems = b[2],
                              !.requiredMessage = "At least one item"] :
     r \in BOOLEAN, b \in ArrayBounds}
    \cup {[Base("f", "array") EXCEPT !.required = TRUE, !.disableError = TRUE,
                                     !.minItems = Vnum(1), !.maxItems = Vnum(2)],
          [Base("f", "array") EXCEPT !.minItems = Vnum(1), !.maxItems = Vnum(2),
                                     !.defaultValue = Varr(Items(MaxLen)),
                                     !.minItemsMessage = "Too few",
                                     !.maxItemsMessage = "Too many"]}

ItemDescriptors ==
  {[Base("f", "array") EXCEPT !.itemType = t, !.maxItems = Vnum(2)] :
     t \in {"number", "checkbox", "file", "multi-select", "select", "rating"}}

FileDescriptors ==
  {[Base("f", "file") EXCEPT !.required = r, !.multiple = TRUE, !.disableError = de] :
     r \in BOOLEAN, de \in BOOLEAN}

SelectDescriptors ==
  {[Base("f", "multi-select") EXCEPT !.required = r, !.maxSelections = Vnum(1)] :
     r \in BOOLEAN}

\* fields with a defaultValue of their kind, empty or populated
DefaultDescriptors ==
  {[Base("f", "text") EXCEPT !.defaultValue = d] : d \in {Vstr(""), Vstr("ab")}}
    \cup {[Base("f", "multi-select") EXCEPT !.defaultValue = Varr(<<Vstr("o1")>>)],
          [Base("f", "file") EXCEPT !.defaultValue = Vfile(1)],
          [Base("f", "file") EXCEPT !.defaultValue = Vnull, !.multiple = TRUE],
          [Base("f", "checkbox") EXCEPT !.checkedValue = Vstr("yes"),
                                        !.uncheckedValue = Vstr("no"),
                                        !.defaultValue = Vbool(FALSE)]}

\* a field the host renders itself (renderComponent)
CustomRendered == [Base("f", "rating") EXCEPT !.renderComponent = TRUE]

Descriptors ==
  {CustomRendered} \cup KindDescriptors \cup TextDescriptors \cup CustomDescriptors \cup NumberDescriptors
    \cup CheckboxDescriptors \cup DateDescriptors \cup ArrayDescriptors
    \cup ItemDescriptors \cup FileDescriptors \cup SelectDescriptors
    \cup DefaultDescriptors

\* a sibling field with rules of its own
Sibling == [Base("s", "text") EXCEPT !.required = TRUE,
                                     !.requiredMessage = "Sibling is required"]

PairDescriptors ==
  {[Base("f", "text") EXCEPT !.customValidation = b, !.customValidationMessage = m] :
     b \in {"throws", "rejects", "retTrue", "resolveFalse"},
     m \in {"", "Custom failed"}}
    \cup Variants(Base("f", "rating")) \cup Variants(Base("f", "file"))
    \cup {[Base("f", "array") EXCEPT !.required = r] : r \in BOOLEAN}

\* two descriptors of the same name
DuplicateLists ==
  {<<Base("f", "text"), [Base("f", "number") EXCEPT !.required = TRUE]>>,
   <<[Base("f", "number") EXCEPT !.required = TRUE], Base("f", "text")>>,
   <<Base("f", "rating"), Base("f", "text")>>,
   <<Base("f", "text"), Base("f", "rating")>>}

FieldLists ==
  {<<d>> : d \in Descriptors} \cup {<<d, Sibling>> : d \in PairDescriptors}
    \cup DuplicateLists

(***************************************************************************)
(* Session state.  last records the operation that produced the state:     *)
(* its name, the field it acted on, whether it invoked the host callback   *)
(* (onSubmit or onReset) and the data handed to onSubmit.  rendered is the  *)
(* values of the last render, which the handlers of ArrayField have        *)
(* captured (const { onChange, value } = field).  pending is the submits    *)
(* that were started, in order, each with the stage it has reached.        *)
(***************************************************************************)
VARIABLES fields, values, errors, dirtyFields, touchedFields, last, rendered,
          pending

vars == <<fields, values, errors, dirtyFields, touchedFields, last, rendered,
          pending>>

\* the components have rendered again with the values the step wrote
Rerender == rendered' = values'

\* the next call of a handler of ArrayField comes after the render with the
\* value written by this one, or before it
RerenderOrNot == rendered' \in {values', rendered}

\* what a reset finds: errors shown, dirty fields, touched fields, values
\* that are not the defaults
NothingToClear == [errors |-> FALSE, dirty |-> FALSE, touched |-> FALSE,
                   edited |-> FALSE]

\* the index of an operation that is not on an item of an array
NoIndex == 0

OpRecord(op, n, inv, data) ==
  [op |-> op, name |-> n, invoked |-> inv, data |-> data,
   cleared |-> NothingToClear, index |-> NoIndex, item |-> Vundef]

Init ==
  /\ fields \in FieldLists
  /\ values = generateDefaultValues(fields, Names)
  /\ errors = NoErrors
  /\ dirtyFields = {}
  /\ touchedFields = {}
  /\ last = OpRecord("init", "", FALSE, NoData)
  /\ rendered = values
  /\ pending = <<>>

\* field.onChange(v) of the controller of a field: the value is written,
\* the field is dirty iff the value differs from its default, and the field
\* is validated (the form validates on change and on blur)
FieldOnChangeAt(n, v, op, index, item) ==
  LET vals == [values EXCEPT ![n] = v]
  IN /\ values' = vals
     /\ dirtyFields' = IF v = generateDefaultValues(fields, Names)[n]
                         THEN dirtyFields \ {n} ELSE dirtyFields \cup {n}
     /\ errors' = [errors EXCEPT ![n] = ResolverError(fields, vals, n)]
     /\ last' = [OpRecord(op, n, FALSE, NoData) EXCEPT !.index = index,
                                                        !.item = item]
     /\ UNCHANGED <<fields, touchedFields>>

FieldOnChange(n, v, op) == FieldOnChangeAt(n, v, op, NoIndex, Vundef)

\* what the text-like inputs can be made to hold
TextInputs(f) ==
  CASE f.type \in {"text", "textarea", "password"} -> {"", "ab", "abcdef"}
    [] f.type = "email" -> {"", "ab", "a@b.co"}
    [] f.type = "url" -> {"", "ab", "http://x.y"}
    [] f.type = "date" -> {"", "2024-01-05", "2024-01-15", "2024-01-25"}
    [] f.type \in SelectKinds -> {"", "opt"}
    [] f.type = "number" -> {"", "15", "25", "150"}
    [] OTHER -> {}

\* handleChange of the text, number, select and date inputs
HandleChange(i) ==
  \E s \in TextInputs(fields[i]) :
    /\ FieldOnChange(fields[i].name, Vstr(s), "change")
    /\ Rerender
    /\ UNCHANGED pending

\* a widget that ignores the configured checkedValue
CheckedValueIgnored(f) == Vbool(TRUE)

\* CheckboxField: checkedValue = true, uncheckedValue = false by default
CheckedValue(f) == IF f.checkedValue = Vundef THEN Vbool(TRUE) ELSE f.checkedValue
UncheckedValue(f) == IF f.uncheckedValue = Vundef THEN Vbool(FALSE) ELSE f.uncheckedValue

\* isChecked = Boolean(value === checkedValue), what the box shows
IsChecked(f, x) == x = CheckedValue(f)

\* a click on the box calls handleCheckedChange(!isChecked), which writes
\* checked ? checkedValue : uncheckedValue
HandleCheckedChange(i) ==
  /\ fields[i].type = "checkbox"
  /\ LET checked == ~IsChecked(fields[i], ValueOf(values[fields[i].name]))
     IN FieldOnChange(fields[i].name,
                      IF checked THEN CheckedValue(fields[i])
                                 ELSE UncheckedValue(fields[i]),
                      "toggle")
  /\ Rerender
  /\ UNCHANGED pending

\* FileField: the chosen files, or the first of them, or null
HandleFileChange(i) ==
  /\ fields[i].type = "file"
  /\ \E k \in 0..1 :
       FieldOnChange(fields[i].name,
                     IF fields[i].multiple
                       THEN Varr([j \in 1..k |-> Vfile(j)])
                       ELSE IF k = 0 THEN Vnull ELSE Vfile(k),
                     "file")
  /\ Rerender
  /\ UNCHANGED pending

\* onBlur of a field: touched, and validated
HandleBlur(i) ==
  LET n == fields[i].name
  IN /\ fields[i].type \in KnownKinds
     /\ touchedFields' = touchedFields \cup {n}
     /\ errors' = [errors EXCEPT ![n] = ResolverError(fields, values, n)]
     /\ last' = OpRecord("blur", n, FALSE, NoData)
     /\ UNCHANGED <<fields, values, dirtyFields>>
     /\ Rerender
     /\ UNCHANGED pending

(***************************************************************************)
(* The array widget (ArrayField).                                          *)
(***************************************************************************)
\* arrayValue: the field's value if it is an array, else []
ArrayValue(x) == IF x.k = "arr" THEN x.v ELSE <<>>

\* item.trim() on the strings of the model: a string of white space
\* trims to the empty string, the others have no white space at their ends
Trim(str) == IF str \in {"", " ", "  "} THEN "" ELSE str

\* the callback of arrayValue.some in hasValidItems
ItemIsValid(item) ==
  CASE item.k = "str" -> Trim(item.v) # ""
    [] item.k = "num" -> item.v # 0
    [] item.k = "bool" -> TRUE
    [] item.k = "arr" -> Len(item.v) > 0
    [] OTHER -> item.k \notin {"null", "undefined"}

hasValidItems(arr) == \E j \in 1..Len(arr) : ItemIsValid(arr[j])

\* getDefaultValueForType(itemType, itemConfig)
getDefaultValueForType(type, config) ==
  CASE type \in StringKinds -> OrElse(config.defaultValue, Vstr(""))
    [] type = "number" -> Coalesce(config.defaultValue, Vnum(0))
    [] type \in SelectKinds -> OrElse(config.defaultValue, Vstr(""))
    [] type = "multi-select" -> OrElse(config.defaultValue, Varr(<<>>))
    [] type = "checkbox" ->
         IF config.uncheckedValue # Vundef
           THEN Coalesce(config.defaultValue, config.uncheckedValue)
           ELSE Coalesce(config.defaultValue, Vbool(FALSE))
    [] type = "file" ->
         OrElse(config.defaultValue, IF config.multiple THEN Varr(<<>>) ELSE Vnull)
    [] OTHER -> Vstr("")

\* addItem returns without a change when maxItems is set (truthy) and reached
AddItemBlocked(f, arr) == Truthy(f.maxItems) /\ Len(arr) >= f.maxItems.v

\* removeItem returns without a change at the floor (minItems, 0 when absent)
MinItemsOf(f) == IF f.minItems = Vundef THEN 0 ELSE f.minItems.v

RemoveItemBlocked(f, arr) == Len(arr) <= MinItemsOf(f)

\* a removal that drops the first item whatever the index
RemoveFirst(arr, index) == [j \in 1..(Len(arr) - 1) |-> arr[j + 1]]

\* arrayValue.filter((_, i) => i !== index), index counted from 1 here
RemoveAt(arr, index) ==
  [j \in 1..(Len(arr) - 1) |-> IF j < index THEN arr[j] ELSE arr[j + 1]]

AddItem(i) ==
  LET f == fields[i]
      arr == ArrayValue(ValueOf(rendered[f.name]))
  IN /\ f.type = "array"
     /\ Len(arr) < MaxLen
     /\ IF AddItemBlocked(f, arr)
          THEN /\ last' = OpRecord("addItem", f.name, FALSE, NoData)
               /\ UNCHANGED <<fields, values, errors, dirtyFields, touchedFields>>
          ELSE FieldOnChange(f.name,
                 Varr(Append(arr, getDefaultValueForType(f.itemType, f.itemConfig))),
                 "addItem")
     /\ RerenderOrNot
     /\ UNCHANGED pending

RemoveItem(i) ==
  LET f == fields[i]
      arr == ArrayValue(ValueOf(rendered[f.name]))
  IN /\ f.type = "array"
     /\ \E index \in 1..Len(arr) :
          IF RemoveItemBlocked(f, arr)
            THEN /\ last' = OpRecord("removeItem", f.name, FALSE, NoData)
                 /\ UNCHANGED <<fields, values, errors, dirtyFields, touchedFields>>
            ELSE FieldOnChangeAt(f.name, Varr(RemoveAt(arr, index)), "removeItem",
                                 index, Vundef)
     /\ RerenderOrNot
     /\ UNCHANGED pending

\* updateItem(index, newValue), called by the input of the item at index
UpdateItem(i) ==
  LET f == fields[i]
      arr == ArrayValue(ValueOf(rendered[f.name]))
  IN /\ f.type = "array"
     /\ \E index \in 1..Len(arr), s \in {"ab"} :
          FieldOnChangeAt(f.name, Varr([arr EXCEPT ![index] = Vstr(s)]), "updateItem",
                          index, Vstr(s))
     /\ RerenderOrNot
     /\ UNCHANGED pending

(***************************************************************************)
(* The multi-select widget.                                                *)
(***************************************************************************)
Options == {"o1", "o2"}

Includes(arr, x) == \E j \in 1..Len(arr) : arr[j] = x

Without(arr, x) == SelectSeq(arr, LAMBDA e : e # x)

\* a handleSelect that writes the new selection whatever maxSelections is
HandleSelectUnlimited(i) ==
  LET f == fields[i]
      selectedValues == ArrayValue(ValueOf(values[f.name]))
  IN /\ f.type = "multi-select"
     /\ \E o \in Options :
          LET newValues == IF Includes(selectedValues, Vstr(o))
                             THEN Without(selectedValues, Vstr(o))
                             ELSE Append(selectedValues, Vstr(o))
          IN FieldOnChangeAt(f.name, Varr(newValues), "select", NoIndex, Vstr(o))
     /\ Rerender
     /\ UNCHANGED pending

HandleSelect(i) ==
  LET f == fields[i]
      selectedValues == ArrayValue(ValueOf(values[f.name]))
  IN /\ f.type = "multi-select"
     /\ \E o \in Options :
          LET newValues == IF Includes(selectedValues, Vstr(o))
                             THEN Without(selectedValues, Vstr(o))
                             ELSE Append(selectedValues, Vstr(o))
          IN IF ~Truthy(f.maxSelections) \/ Len(newValues) <= f.maxSelections.v
               THEN FieldOnChangeAt(f.name, Varr(newValues), "select", NoIndex, Vstr(o))
               ELSE /\ last' = [OpRecord("select", f.name, FALSE, NoData)
                                  EXCEPT !.item = Vstr(o)]
                    /\ UNCHANGED <<fields, values, errors, dirtyFields, touchedFields>>
     /\ Rerender
     /\ UNCHANGED pending

(***************************************************************************)
(* The imperative handle and the buttons.                                  *)
(***************************************************************************)
\* the values a host writes with setValue
SetValueInputs(f) ==
  CASE f.type = "array" -> {Varr(<<>>), Varr(Items(1)), Varr(Items(MaxLen))}
    [] f.type = "number" -> {Vnum(5), Vnum(25), Vnull}
    [] f.type = "checkbox" -> {CheckedValue(f), UncheckedValue(f), Vstr("maybe")}
    [] f.type = "file" -> {Vnull, Vfile(1)}
    [] f.type = "multi-select" -> {Varr(<<Vstr("o1"), Vstr("o2")>>)}
    [] OTHER -> {Vstr("ab"), Vnull}

\* a setValue that validates the field (shouldValidate: true)
SetValueValidating(i) ==
  \E v \in SetValueInputs(fields[i]) :
    LET vals == [values EXCEPT ![fields[i].name] = v]
    IN /\ values' = vals
       /\ errors' = [errors EXCEPT ![fields[i].name] =
                                      ResolverError(fields, vals, fields[i].name)]
       /\ last' = OpRecord("setValue", fields[i].name, FALSE, NoData)
       /\ UNCHANGED <<fields, dirtyFields, touchedFields>>
       /\ Rerender
       /\ UNCHANGED pending

\* setValue(name, value): form.setValue(name, value)
SetValue(i) ==
  \E v \in SetValueInputs(fields[i]) :
    /\ values' = [values EXCEPT ![fields[i].name] = v]
    /\ last' = OpRecord("setValue", fields[i].name, FALSE, NoData)
    /\ UNCHANGED <<fields, errors, dirtyFields, touchedFields>>
    /\ Rerender
    /\ UNCHANGED pending

\* a name no field of the list has
Unconfigured == "x"

\* setValue(name, value) with a name that is not the name of a field, by
\* the host of a one-field form of plain text, number or file kind
SetValueUnconfigured ==
  /\ Len(fields) = 1 /\ fields[1] \in KindDescriptors
  /\ fields[1].type \in {"text", "number", "file"}
  /\ values' = [values EXCEPT ![Unconfigured] = Vstr("ab")]
  /\ last' = OpRecord("setValue", Unconfigured, FALSE, NoData)
  /\ UNCHANGED <<fields, errors, dirtyFields, touchedFields>>
  /\ Rerender
  /\ UNCHANGED pending

\* getValues(): form.getValues(), a copy of the values handed to the host
GetValues ==
  /\ last' = OpRecord("getValues", "", FALSE, values)
  /\ UNCHANGED <<fields, values, errors, dirtyFields, touchedFields>>
  /\ Rerender
  /\ UNCHANGED pending

\* clearErrors(): form.clearErrors()
ClearErrors ==
  /\ HasErrors(errors)
  /\ errors' = NoErrors
  /\ last' = OpRecord("clearErrors", "", FALSE, NoData)
  /\ UNCHANGED <<fields, values, dirtyFields, touchedFields>>
  /\ Rerender
  /\ UNCHANGED pending

\* the state a reset discards
Cleared ==
  [errors |-> HasErrors(errors), dirty |-> dirtyFields # {},
   touched |-> touchedFields # {},
   edited |-> values # generateDefaultValues(fields, Names)]

\* reset() of the handle: form.reset(defaults); form.clearErrors(); onReset()
Reset ==
  /\ values' = generateDefaultValues(fields, Names)
  /\ errors' = NoErrors
  /\ dirtyFields' = {}
  /\ touchedFields' = {}
  /\ last' = [OpRecord("reset", "", TRUE, NoData) EXCEPT !.cleared = Cleared]
  /\ UNCHANGED fields
  /\ Rerender
  /\ UNCHANGED pending

\* a reset that keeps the touched flags (keepTouched: true)
HandleResetKeepingTouched ==
  /\ values' = generateDefaultValues(fields, Names)
  /\ errors' = NoErrors
  /\ dirtyFields' = {}
  /\ last' = [OpRecord("handleReset", "", TRUE, NoData) EXCEPT !.cleared = Cleared]
  /\ UNCHANGED <<fields, touchedFields>>
  /\ Rerender
  /\ UNCHANGED pending

\* the confirmed reset button: form.reset(defaults, {...}); onReset()
HandleReset ==
  /\ values' = generateDefaultValues(fields, Names)
  /\ errors' = NoErrors
  /\ dirtyFields' = {}
  /\ touchedFields' = {}
  /\ last' = [OpRecord("handleReset", "", TRUE, NoData) EXCEPT !.cleared = Cleared]
  /\ UNCHANGED fields
  /\ Rerender
  /\ UNCHANGED pending

\* submit(): form.handleSubmit(handleSubmit)().  The resolver validates all
\* values; with errors they become the form's errors and the submit handler
\* is not called; without, the submit handler runs on the validated data:
\* manual array checks, a trigger for every field, and the decision.
Submit ==
  LET e1 == ResolverErrors(fields, values)
      data == ResolverValues(fields, values)
  IN /\ IF HasErrors(e1)
          THEN /\ errors' = e1
               /\ last' = OpRecord("submit", "", FALSE, NoData)
          ELSE /\ errors' = ErrorsAtDecision(fields, values, data)
               /\ \E seen \in FormStateErrors(fields, values, data, errors) :
                    last' = IF SubmitInvokes(seen)
                              THEN OpRecord("submit", "", TRUE, data)
                              ELSE OpRecord("submit", "", FALSE, NoData)
     /\ UNCHANGED <<fields, values, dirtyFields, touchedFields>>
     /\ Rerender
     /\ UNCHANGED pending

Next ==
  \/ \E i \in DOMAIN fields : HandleChange(i)
  \/ \E i \in DOMAIN fields : HandleCheckedChange(i)
  \/ \E i \in DOMAIN fields : HandleFileChange(i)
  \/ \E i \in DOMAIN fields : HandleBlur(i)
  \/ \E i \in DOMAIN fields : AddItem(i)
  \/ \E i \in DOMAIN fields : RemoveItem(i)
  \/ \E i \in DOMAIN fields : UpdateItem(i)
  \/ \E i \in DOMAIN fields : HandleSelect(i)
  \/ \E i \in DOMAIN fields : SetValue(i)
  \/ SetValueUnconfigured
  \/ GetValues
  \/ ClearErrors
  \/ Reset
  \/ HandleReset
  \/ Submit

Spec == Init /\ [][Next]_vars

(***************************************************************************)
(* The submit as it runs in time.  form.handleSubmit awaits the resolver   *)
(* on the values of the moment it is called; when the resolver has no      *)
(* error the submit handler runs on the validated data, sets the manual    *)
(* array errors and issues one form.trigger per field on the values of     *)
(* that moment; every trigger writes its field's error when it settles,    *)
(* and the handler decides when all have settled.  Every resolver run      *)
(* validates the whole schema, so it awaits every custom validator that    *)
(* is reached.  Nothing cancels a submit that was started.                 *)
(***************************************************************************)
\* the submits of a session
MaxRuns == 2

\* a custom validator that is called on these values never settles; it is
\* called when the internal tests of its field pass
ValidationPending(fs, vals) ==
  \E i \in DOMAIN fs :
    /\ schemaShape(fs)[fs[i].name] = i
    /\ ~fs[i].disableError /\ fs[i].customValidation = "hangs"
    /\ LET sch == SynthesizeValidator(fs[i])
       IN InternalError(sch, CastValue(sch, ValueOf(vals[fs[i].name]))) = NoError

AsyncDescriptors ==
  {[Base("f", "text") EXCEPT !.required = TRUE, !.customValidation = b] :
     b \in {"resolveTrue", "resolveFalse", "hangs"}}

AsyncFieldLists ==
  {<<d>> : d \in AsyncDescriptors}
    \cup {<<[Base("f", "text") EXCEPT !.customValidation = "resolveTrue"], Sibling>>}

AsyncInit ==
  /\ fields \in AsyncFieldLists
  /\ values = generateDefaultValues(fields, Names)
  /\ errors = NoErrors
  /\ dirtyFields = {}
  /\ touchedFields = {}
  /\ last = OpRecord("init", "", FALSE, NoData)
  /\ rendered = values
  /\ pending = <<>>

\* a submit that cancels the one still under way
StartSubmitCancelling ==
  LET new == [phase |-> "resolving", input |-> values, shown |-> errors,
              triggered |-> NoData, waiting |-> {}, invoked |-> FALSE,
              concurrent |-> \E r \in DOMAIN pending : pending[r].phase # "done"]
  IN /\ Len(pending) < MaxRuns
     /\ Len(fields) = 1 \/ pending = <<>>
     /\ pending' = IF pending # <<>> /\ pending[Len(pending)].phase # "done"
                     THEN [pending EXCEPT ![Len(pending)] = new]
                     ELSE Append(pending, new)
     /\ last' = OpRecord("startSubmit", "", FALSE, NoData)
     /\ UNCHANGED <<fields, values, errors, dirtyFields, touchedFields, rendered>>

\* submit(): form.handleSubmit(handleSubmit)() calls the resolver.  A form
\* of one field is submitted up to MaxRuns times, a longer one once.
StartSubmit ==
  /\ Len(pending) < MaxRuns
  /\ Len(fields) = 1 \/ pending = <<>>
  /\ pending' = Append(pending,
       [phase |-> "resolving", input |-> values, shown |-> errors,
        triggered |-> NoData, waiting |-> {}, invoked |-> FALSE,
        concurrent |-> \E r \in DOMAIN pending : pending[r].phase # "done"])
  /\ last' = OpRecord("startSubmit", "", FALSE, NoData)
  /\ UNCHANGED <<fields, values, errors, dirtyFields, touchedFields, rendered>>

\* the resolver of a submit settles: its errors become the form's errors,
\* or the submit handler runs up to Promise.all
ResolverSettles(r) ==
  LET run == pending[r]
      e1 == ResolverErrors(fields, run.input)
      data == ResolverValues(fields, run.input)
  IN /\ run.phase = "resolving"
     /\ ~ValidationPending(fields, run.input)
     /\ IF HasErrors(e1)
          THEN /\ errors' = e1
               /\ pending' = [pending EXCEPT ![r].phase = "done"]
               /\ last' = OpRecord("submit", "", FALSE, NoData)
          ELSE /\ errors' = ManualArrayErrors(fields, data, NoErrors)
               /\ pending' = [pending EXCEPT ![r].phase = "triggering",
                                              ![r].triggered = values,
                                              ![r].waiting = FieldNames(fields)]
               /\ last' = OpRecord("resolved", "", FALSE, NoData)
     /\ UNCHANGED <<fields, values, dirtyFields, touchedFields, rendered>>

\* Promise.all(validationPromises).then: the decision is taken when the
\* last trigger has settled
Decides(run, n) == run.waiting = {n}

\* form.trigger(name) of a submit settles and writes the error of its
\* field; the last one to settle is followed by the decision
TriggerSettles(r, n) ==
  LET run == pending[r]
      errs == [errors EXCEPT ![n] = ResolverError(fields, run.triggered, n)]
      data == ResolverValues(fields, run.input)
  IN /\ run.phase = "triggering" /\ n \in run.waiting
     /\ ~ValidationPending(fields, run.triggered)
     /\ errors' = errs
     /\ IF Decides(run, n)
          THEN \E seen \in {run.shown, errs} :
                 /\ pending' = [pending EXCEPT ![r].phase = "done",
                                                ![r].waiting = run.waiting \ {n},
                                                ![r].invoked = SubmitInvokes(seen)]
                 /\ last' = IF SubmitInvokes(seen)
                              THEN OpRecord("submit", "", TRUE, data)
                              ELSE OpRecord("submit", "", FALSE, NoData)
          ELSE /\ pending' = [pending EXCEPT ![r].waiting = run.waiting \ {n}]
               /\ last' = OpRecord("trigger", n, FALSE, NoData)
     /\ UNCHANGED <<fields, values, dirtyFields, touchedFields, rendered>>

AsyncNext ==
  \/ StartSubmit
  \/ \E r \in DOMAIN pending : ResolverSettles(r)
  \/ \E r \in DOMAIN pending, n \in Names : TriggerSettles(r, n)
  \/ \E i \in DOMAIN fields : SetValue(i)
  \/ Reset

SpecAsync == AsyncInit /\ [][AsyncNext]_vars

(***************************************************************************)
(* What the renderers put in the place of a field's widget: "widget", the  *)
(* host's "custom" component, an inline "error" text, or "nothing".        *)
(***************************************************************************)
\* SimpleFormBuilder: renderComponent, else one `type === kind && widget`
\* per kind
RenderField(f) ==
  IF f.renderComponent THEN "custom"
  ELSE IF f.type \in KnownKinds THEN "widget"
  ELSE "nothing"

\* ArrayField.renderItemField: a case per item kind, default: the text
\* "Unsupported field type: <itemType>"
renderItemField(itemType) ==
  IF itemType \in KnownKinds \ {"array"} THEN "widget" ELSE "error"

\* DynamicFieldRenderer: the text "Error: Unknown field type" unless the
\* type is registered
DynamicFieldRenderer(f, registered) ==
  IF f.type \notin registered THEN "error" ELSE "widget"

\* {!field.disableErrorMessage && !field.renderComponent && <FormMessage />}:
\* the message of the field's error is displayed
MessageShown(f, errs) ==
  ~f.disableErrorMessage /\ ~f.renderComponent /\ errs[f.name] # NoError

\* the registries of a FormBuilderProvider: none, or a component per kind
Registries == {{}, KnownKinds}

(***************************************************************************)
(* Properties.                                                             *)
(***************************************************************************)
\* the descriptor whose validator the schema holds for a name: the last one
LastIndex(n) ==
  CHOOSE i \in DOMAIN fields :
    fields[i].name = n /\ \A j \in DOMAIN fields : fields[j].name = n => j <= i

FieldOf(n) == fields[LastIndex(n)]

\* the validation result of the current value of a configured name
ResultOf(n) == ValidateField(FieldOf(n), ValueOf(values[n]))

Untouched ==
  /\ values = generateDefaultValues(fields, Names)
  /\ dirtyFields = {} /\ touchedFields = {}

\* C1: a submit validates every configured field, touched or not: after it
\* the error recorded for each field is the validation result of the field's
\* value, and onSubmit was invoked only if no field has an error.
C1_SubmitValidatesAllFields ==
  last.op = "submit" =>
    /\ \A n \in FieldNames(fields) : errors[n] = ResultOf(n)
    /\ last.invoked => \A n \in FieldNames(fields) : ResultOf(n) = NoError
    /\ HasErrors(errors) => ~last.invoked

\* C1 witness: a submit of an untouched two-field form blocked with an error
\* recorded on each of the two fields
C1_Witness ==
  /\ last.op = "submit" /\ ~last.invoked /\ Untouched
  /\ Len(fields) = 2
  /\ errors["f"] # NoError /\ errors["s"] # NoError

\* C2 (as claimed): a field with disableError never has an error, whatever
\* its kind and value, and an untouched form whose fields all have
\* disableError reaches onSubmit.
C2_DisableErrorNeverFails ==
  /\ \A n \in FieldNames(fields) : FieldOf(n).disableError => errors[n] = NoError
  /\ (last.op = "submit" /\ Untouched
        /\ \A i \in DOMAIN fields : fields[i].disableError) => last.invoked

\* C3 (as claimed): an untouched form with a required field of a recognised
\* kind, without disableError and without a default value, does not reach
\* onSubmit, and the field has an error.
C3_RequiredDefaultFails ==
  \A n \in FieldNames(fields) :
    (/\ last.op = "submit" /\ Untouched
     /\ FieldOf(n).type \in KnownKinds
     /\ FieldOf(n).required /\ ~FieldOf(n).disableError
     /\ FieldOf(n).defaultValue = Vundef)
      => ~last.invoked /\ errors[n] # NoError

\* C4 (as claimed): the keys of the default values, the keys of the schema
\* and the field names of the list are the same set.
C4_KeySetParity ==
  /\ Keys(generateDefaultValues(fields, Names)) = FieldNames(fields)
  /\ {n \in Names : schemaShape(fields)[n] # 0} = FieldNames(fields)

\* the field f without its customValidation
WithoutCustom(f) == [f EXCEPT !.customValidation = "none"]

ExpectedCustomMessage(f) ==
  IF f.customValidationMessage # "" THEN f.customValidationMessage
  ELSE f.label \o " is invalid"

\* C5: after a submit, a field whose customValidation throws or rejects has
\* one error (the customValidationMessage or "<label> is invalid" when the
\* field's other rules pass), onSubmit was not invoked, and every other
\* field has its own validation result.
C5_CustomFaultContained ==
  \A n \in FieldNames(fields) :
    (/\ last.op = "submit"
     /\ FieldOf(n).customValidation \in {"throws", "rejects"}
     /\ ~FieldOf(n).disableError)
      => /\ errors[n] # NoError
         /\ ~last.invoked
         /\ ValidateField(WithoutCustom(FieldOf(n)), ValueOf(values[n])) = NoError
              => errors[n] = FieldError("custom-validation",
                                        ExpectedCustomMessage(FieldOf(n)))
         /\ \A m \in FieldNames(fields) \ {n} : errors[m] = ResultOf(m)

\* C5 witness: the throwing field holds a typed value that passes its other
\* rules and carries the custom message, and the sibling has its own error
C5_Witness ==
  /\ last.op = "submit" /\ Len(fields) = 2
  /\ fields[1].customValidation \in {"throws", "rejects"}
  /\ values["f"] = Vstr("ab")
  /\ errors["f"].message = "Custom failed"
  /\ errors["s"].message = "Sibling is required"

\* C6: the custom stage passes exactly when the predicate returns or
\* resolves to true or ""; any other result fails the field with the
\* customValidationMessage or "<label> is invalid".
C6_CustomPassesOnTrueOrEmpty ==
  \A n \in FieldNames(fields) :
    LET f == FieldOf(n)
        x == CastValue(SynthesizeValidator(f), ValueOf(values[n]))
        r == CustomValidationResult(f.customValidation, x)
        ok == r.how \in {"return", "resolve"} /\ r.v \in {Vbool(TRUE), Vstr("")}
    IN (/\ last.op = "submit"
        /\ f.customValidation # "none" /\ ~f.disableError
        /\ ValidateField(WithoutCustom(f), ValueOf(values[n])) = NoError)
         => IF ok THEN errors[n] = NoError
            ELSE /\ errors[n].message = ExpectedCustomMessage(f)
                 /\ errors[n].message # "bad value"
                 /\ ~last.invoked

\* C6 witness: a predicate that returned a non-empty string failed the field
C6_Witness ==
  /\ last.op = "submit"
  /\ fields[1].customValidation \in {"retMsg", "resolveMsg"}
  /\ values["f"] = Vstr("ab")
  /\ errors["f"].message = "Field is invalid"

\* the length of the array held by a name
LenOf(vals, n) == Len(ArrayValue(ValueOf(vals[n])))

ArrayOps == {"addItem", "removeItem", "updateItem"}

\* C7 (as claimed): no addItem, removeItem or updateItem call takes the
\* length of an array with minItems = m and maxItems = n above the larger of
\* n and the length before it, or below the smaller of m and that length.
C7_ArrayLengthWithinBounds ==
  [][\A n \in FieldNames(fields) :
       (/\ last'.op \in ArrayOps /\ last'.name = n
        /\ FieldOf(n).type = "array"
        /\ FieldOf(n).minItems # Vundef /\ FieldOf(n).maxItems # Vundef)
         => /\ \/ LenOf(values', n) <= LenOf(values, n)
               \/ LenOf(values', n) <= FieldOf(n).maxItems.v
            /\ \/ LenOf(values', n) >= LenOf(values, n)
               \/ LenOf(values', n) >= FieldOf(n).minItems.v]_vars

ExpectedMinItemsMessage(f) ==
  IF f.minItemsMessage # "" THEN f.minItemsMessage
  ELSE f.label \o " must have at least " \o ToString(f.minItems.v) \o " items"

ExpectedMaxItemsMessage(f) ==
  IF f.maxItemsMessage # "" THEN f.maxItemsMessage
  ELSE f.label \o " must have at most " \o ToString(f.maxItems.v) \o " items"

ExpectedRequiredMessage(f) ==
  IF f.requiredMessage # "" THEN f.requiredMessage
  ELSE f.label \o " is required"

TooFew(n) ==
  /\ FieldOf(n).type = "array" /\ values[n].k = "arr"
  /\ FieldOf(n).minItems # Vundef /\ LenOf(values, n) < FieldOf(n).minItems.v

TooMany(n) ==
  /\ FieldOf(n).type = "array" /\ values[n].k = "arr"
  /\ FieldOf(n).maxItems # Vundef /\ LenOf(values, n) > FieldOf(n).maxItems.v

\* C8 (as claimed): after a submit, an array shorter than minItems has the
\* minItems message and one longer than maxItems has the maxItems message,
\* and onSubmit was not invoked.
C8_CardinalityMessages ==
  \A n \in FieldNames(fields) :
    last.op = "submit" =>
      /\ TooFew(n) => errors[n].message = ExpectedMinItemsMessage(FieldOf(n))
                        /\ ~last.invoked
      /\ TooMany(n) => errors[n].message = ExpectedMaxItemsMessage(FieldOf(n))
                         /\ ~last.invoked

\* C8 (amended): for an array field without disableError, after a submit an
\* array shorter than minItems has the minItems message, one longer than
\* maxItems and not shorter than minItems has the maxItems message, and
\* onSubmit was not invoked.
C8_CardinalityMessagesAmended ==
  \A n \in FieldNames(fields) :
    (last.op = "submit" /\ ~FieldOf(n).disableError) =>
      /\ TooFew(n) => errors[n].message = ExpectedMinItemsMessage(FieldOf(n))
                        /\ ~last.invoked
      /\ (TooMany(n) /\ ~TooFew(n)) =>
           errors[n].message = ExpectedMaxItemsMessage(FieldOf(n))
             /\ ~last.invoked

\* C8 witness: a submit of an array longer than maxItems, written by
\* setValue or held as the default, left the maxItems message
C8_Witness ==
  /\ last.op = "submit" /\ ~last.invoked
  /\ TooMany("f") /\ ~TooFew("f") /\ ~FieldOf("f").disableError
  /\ errors["f"].message \in {"Too many", "Field must have at most 2 items"}

\* C9 (as claimed): after a submit, a required array field of length 0 has
\* the required message and onSubmit was not invoked, with or without
\* minItems and maxItems.
C9_RequiredEmptyArray ==
  \A n \in FieldNames(fields) :
    (/\ last.op = "submit"
     /\ FieldOf(n).type = "array" /\ FieldOf(n).required /\ ~FieldOf(n).disableError
     /\ values[n] = Varr(<<>>))
      => /\ errors[n].message = ExpectedRequiredMessage(FieldOf(n))
         /\ ~last.invoked

\* C10 (as claimed): after a submit of a required checkbox with distinct
\* checkedValue V1 and uncheckedValue V0, the value V0 has left the required
\* message and onSubmit was not invoked, and the value V1 has passed.
C10_RequiredCheckbox ==
  \A n \in FieldNames(fields) :
    LET f == FieldOf(n)
    IN (/\ last.op = "submit" /\ Len(fields) = 1
        /\ f.type = "checkbox" /\ f.required /\ ~f.disableError
        /\ f.checkedValue # Vundef /\ f.uncheckedValue # Vundef
        /\ f.checkedValue # f.uncheckedValue)
         => /\ values[n] = f.uncheckedValue
                => errors[n].message = ExpectedRequiredMessage(f) /\ ~last.invoked
            /\ values[n] = f.checkedValue
                => errors[n] = NoError /\ last.invoked

C12_ToggleAlternates ==
  [][\A n \in FieldNames(fields) :
       LET f == FieldOf(n)
       IN (/\ last'.op = "toggle" /\ last'.name = n /\ Len(fields) = 1
           /\ f.checkedValue # Vundef /\ f.uncheckedValue # Vundef)
            => /\ values'[n] = IF values[n] = f.checkedValue
                                 THEN f.uncheckedValue ELSE f.checkedValue
               /\ values'[n] \in {f.checkedValue, f.uncheckedValue}
               /\ IsChecked(f, values'[n]) <=> values'[n] = f.checkedValue]_vars

\* C12 witness: from the derived default V0 the box was toggled on, then off
C12_Witness ==
  /\ last.op = "toggle"
  /\ fields[1].checkedValue = Vstr("yes") /\ fields[1].uncheckedValue = Vstr("no")
  /\ fields[1].defaultValue = Vundef
  /\ values["f"] = Vstr("no")

\* C13: after reset() of the handle or the confirmed reset button, the
\* values are the defaults derived from the field list, no error is
\* recorded, no field is dirty or touched, and onReset was invoked.
C13_ResetRestoresDefaults ==
  last.op \in {"reset", "handleReset"} =>
    /\ values = generateDefaultValues(fields, Names)
    /\ errors = NoErrors
    /\ dirtyFields = {} /\ touchedFields = {}
    /\ last.invoked

\* C13 witness: the reset button cleared an array with items added, an
\* error shown and the field dirty and touched
C13_Witness ==
  /\ last.op = "handleReset" /\ fields[1].type = "array"
  /\ last.cleared.errors /\ last.cleared.dirty
  /\ last.cleared.touched /\ last.cleared.edited

\* C14: setValue changes the value of its name only and leaves the errors,
\* the other values and the dirty and touched flags as they were;
\* getValues changes nothing and returns the values; clearErrors empties
\* the errors and leaves the values; none of them invokes onSubmit or
\* onReset.
C14_HandleFrame ==
  [][/\ last'.op = "setValue" =>
          /\ errors' = errors
          /\ \A m \in Names \ {last'.name} : values'[m] = values[m]
          /\ dirtyFields' = dirtyFields /\ touchedFields' = touchedFields
          /\ ~last'.invoked
     /\ last'.op = "getValues" =>
          /\ values' = values /\ errors' = errors
          /\ dirtyFields' = dirtyFields /\ touchedFields' = touchedFields
          /\ last'.data = values /\ ~last'.invoked
     /\ last'.op = "clearErrors" =>
          /\ errors' = NoErrors /\ values' = values
          /\ ~last'.invoked]_vars

\* C14 witness: setValue wrote a value that passes the field's rules and
\* the error recorded before it is still there
C14_Witness ==
  /\ last.op = "setValue" /\ last.name = "f"
  /\ errors["f"] # NoError
  /\ ResultOf("f") = NoError

\* C15 (as claimed): the map handed to onSubmit has exactly the configured
\* field names as its keys, each with a defined value.
C15_SubmittedKeySet ==
  (last.op = "submit" /\ last.invoked) =>
    /\ Keys(last.data) = FieldNames(fields)
    /\ \A n \in FieldNames(fields) : last.data[n] # Vundef

\* the added test of the given name fails for the cast value x of field f
TestFails(f, name, x) ==
  LET s == SynthesizeValidator(f)
  IN \E i \in FailingTests(s, f, x) : s.tests[i].name = name

ExpectedMinMessage(f) ==
  IF f.minMessage # "" THEN f.minMessage
  ELSE f.label \o " must be at least " \o ToString(f.min.v)

ExpectedMaxMessage(f) ==
  IF f.maxMessage # "" THEN f.maxMessage
  ELSE f.label \o " must be at most " \o ToString(f.max.v)

\* C16: for a number field with min and max, the min and max tests pass for
\* every value when the field has a customValidation and for null and
\* undefined; without a customValidation the min test fails exactly for the
\* numbers below min and the max test exactly for the numbers above max, and
\* a submit leaves the min message, or the max message, on the field.
C16_NumberRange ==
  \A n \in FieldNames(fields) :
    LET f == FieldOf(n)
        x == CastValue(SynthesizeValidator(f), ValueOf(values[n]))
    IN (/\ f.type = "number" /\ ~f.disableError
        /\ f.min.k = "num" /\ f.max.k = "num")
         => /\ (f.customValidation # "none" \/ IsAbsent(x))
                 => /\ ~TestFails(f, "number.min", x)
                    /\ ~TestFails(f, "number.max", x)
                    /\ (f.customValidation # "none" \/ last.op = "submit")
                         => errors[n].type \notin {"number.min", "number.max"}
            /\ (f.customValidation = "none" /\ x.k = "num")
                 => /\ TestFails(f, "number.min", x) <=> x.v < f.min.v
                    /\ TestFails(f, "number.max", x) <=> x.v > f.max.v
                    /\ (last.op = "submit" /\ x.v < f.min.v)
                         => errors[n].message = ExpectedMinMessage(f)
                    /\ (last.op = "submit" /\ x.v > f.max.v /\ x.v >= f.min.v)
                         => errors[n].message = ExpectedMaxMessage(f)

\* C16 witness: a number above max was submitted because the field's
\* customValidation accepted it
C16_Witness ==
  /\ last.op = "submit" /\ last.invoked
  /\ fields[1].type = "number" /\ fields[1].customValidation = "atLeast18"
  /\ fields[1].max = Vnum(100)
  /\ last.data["f"] = Vnum(150)

\* x ?? y, written out
IfNullish(x, y) == IF x = Vundef \/ x = Vnull THEN y ELSE x

\* the default the deriver is said to return for a field of a recognised kind
ExpectedDefault(f) ==
  CASE f.type \in StringKinds \cup SelectKinds -> IfNullish(f.defaultValue, Vstr(""))
    [] f.type \in {"multi-select", "array"} -> IfNullish(f.defaultValue, Varr(<<>>))
    [] f.type = "checkbox" ->
         IfNullish(f.defaultValue,
                   IF f.uncheckedValue # Vundef THEN f.uncheckedValue ELSE Vbool(FALSE))
    [] f.type = "file" ->
         IfNullish(f.defaultValue, IF f.multiple THEN Varr(<<>>) ELSE Vnull)
    [] f.type = "number" -> IfNullish(f.defaultValue, Vundef)

C18_UnknownTypeSurfaced ==
  \A i \in DOMAIN fields :
    LET f == fields[i]
    IN /\ (f.type \notin KnownKinds /\ ~f.renderComponent)
            => /\ RenderField(f) = "error"
               /\ \A r \in Registries : DynamicFieldRenderer(f, r) = "error"
               /\ \A j \in DOMAIN fields \ {i} :
                    /\ fields[j].type \in KnownKinds => RenderField(fields[j]) = "widget"
                    /\ last.op = "submit" => errors[fields[j].name] = ResultOf(fields[j].name)
       /\ (f.type = "array" /\ f.itemType \notin KnownKinds)
            => renderItemField(f.itemType) = "error"

\* the field list with the disableErrorMessage flag of every field inverted
FlipDisableErrorMessage(fs) ==
  [i \in DOMAIN fs |-> [fs[i] EXCEPT !.disableErrorMessage = ~@]]

ValidatingOps ==
  {"change", "toggle", "file", "blur", "addItem", "removeItem", "updateItem",
   "select"}

\* C19: a session whose fields differ in disableErrorMessage only starts
\* from the same values and, from the same state, takes the same step: an
\* edit or blur that validates records the same error, a submit records the
\* same errors and hands the same data to onSubmit or blocks alike, a reset
\* returns to the same values; only the display of the message differs.
C19_DisableErrorMessageDisplayOnly ==
  [][LET G == FlipDisableErrorMessage(fields)
         e1 == ResolverErrors(G, values)
         data == ResolverValues(G, values)
     IN /\ generateDefaultValues(G, Names) = generateDefaultValues(fields, Names)
        /\ (last'.op \in ValidatingOps /\ errors' # errors)
             => errors'[last'.name] = ResolverError(G, values', last'.name)
        /\ last'.op = "submit"
             => /\ errors' = IF HasErrors(e1) THEN e1
                                ELSE ErrorsAtDecision(G, values, data)
                /\ last'.invoked
                     => /\ ~HasErrors(e1)
                        /\ last'.data = data
                        /\ \E seen \in FormStateErrors(G, values, data, errors) :
                             SubmitInvokes(seen)
                /\ (~last'.invoked /\ ~HasErrors(e1))
                     => \E seen \in FormStateErrors(G, values, data, errors) :
                          ~SubmitInvokes(seen)
        /\ last'.op \in {"reset", "handleReset"}
             => values' = generateDefaultValues(G, Names)
        /\ \A i \in DOMAIN fields :
             (errors'[fields[i].name] # NoError /\ ~fields[i].renderComponent)
               => MessageShown(fields[i], errors') # MessageShown(G[i], errors')]_vars

\* C19 witness: a blocked submit left an error whose message is displayed,
\* and is not displayed with the flag set
C19_Witness ==
  /\ last.op = "submit" /\ ~last.invoked
  /\ errors["f"] # NoError
  /\ MessageShown(fields[1], errors)
  /\ ~MessageShown(FlipDisableErrorMessage(fields)[1], errors)

\* the length of the array a field holds
ItemCount(vals, n) == Len(ArrayValue(ValueOf(vals[n])))

\* C20: an addItem made while the array has room grows it by exactly one
\* item and a removeItem made while its length is above minItems removes
\* exactly one item, also when the call comes before the render with the
\* value the previous call wrote.
C20_NoLostUpdate ==
  [][\A i \in DOMAIN fields :
       LET f == fields[i]
           n == f.name
       IN (f.type = "array" /\ last'.name = n)
            => /\ (/\ last'.op = "addItem"
                    /\ ~AddItemBlocked(f, ArrayValue(ValueOf(values[n]))))
                    => ItemCount(values', n) = ItemCount(values, n) + 1
               /\ (/\ last'.op = "removeItem"
                    /\ ~RemoveItemBlocked(f, ArrayValue(ValueOf(values[n]))))
                    => ItemCount(values', n) = ItemCount(values, n) - 1]_vars

\* a top-level field of the kind and configuration of the items of an array
ItemAsField(f) ==
  [Base("item", f.itemType) EXCEPT !.defaultValue = f.itemConfig.defaultValue,
                                   !.uncheckedValue = f.itemConfig.uncheckedValue,
                                   !.multiple = f.itemConfig.multiple]

\* C21: the item appended by addItem is the default value generated for a
\* top-level field of the item's kind and configuration, and the items the
\* array held stay unchanged and in place.
C21_AddItemAppendsDerivedDefault ==
  [][\A i \in DOMAIN fields :
       LET f == fields[i]
           n == f.name
           old == ArrayValue(ValueOf(values[n]))
           new == ArrayValue(ValueOf(values'[n]))
       IN (/\ f.type = "array" /\ f.itemType \in KnownKinds
           /\ last'.op = "addItem" /\ last'.name = n
           /\ rendered = values
           /\ values' # values)
            => /\ Len(new) = Len(old) + 1
               /\ \A j \in 1..Len(old) : new[j] = old[j]
               /\ new[Len(new)] = DefaultFor(ItemAsField(f))]_vars

Meaningful(item) ==
  CASE item.k = "str" -> item.v # ""
    [] item.k = "num" -> item.v # 0
    [] item.k = "bool" -> item.v = TRUE
    [] item.k = "arr" -> Len(item.v) > 0
    [] OTHER -> item.k \notin {"null", "undefined"}

\* C23: hasValidItems is true exactly when some item of the array is a
\* non-empty string, a non-zero number, the boolean true, a non-empty nested
\* array or another non-null scalar.
C23_HasValidItems ==
  \A i \in DOMAIN fields :
    fields[i].type = "array" =>
      LET arr == ArrayValue(ValueOf(rendered[fields[i].name]))
      IN hasValidItems(arr) = \E j \in 1..Len(arr) : Meaningful(arr[j])

\* the stage of a rule: 1 type or format, 2 required, 3 bounds, length or
\* pattern, 4 the custom predicate
Stage(rule) ==
  CASE rule \in {"typeError", "nullable", "oneOf", "email", "url", "inner"} -> 1
    [] rule \in {"required", "optionality"} -> 2
    [] rule = "custom-validation" -> 4
    [] OTHER -> 3

\* the rules of the field of a name that fail for its value
FailingRules(n) ==
  LET f == FieldOf(n)
      s == SynthesizeValidator(f)
      x == CastValue(s, ValueOf(values[n]))
      e0 == InternalError(s, x)
  IN (IF e0 # NoError THEN {e0.type} ELSE {})
       \cup (IF e0 = NoError \/ IsAbsent(x)
               THEN {s.tests[i].name : i \in FailingTests(s, f, x)}
               ELSE {})

EmptyValue(x) == x \in {Vstr(""), Vundef, Vnull}

\* C24: after a submit the error of a field is of the earliest stage (type
\* or format, required, bounds, custom predicate) among its failing rules;
\* a required field with an empty value and a failing customValidation has
\* the required message.
C24_EarliestStageReported ==
  \A n \in FieldNames(fields) :
    (last.op = "submit" /\ ~FieldOf(n).disableError /\ errors[n] # NoError)
      => /\ \A r \in FailingRules(n) : Stage(errors[n].type) <= Stage(r)
         /\ (/\ FieldOf(n).required
             /\ EmptyValue(ValueOf(values[n]))
             /\ FieldOf(n).customValidation # "none"
             /\ ~CustomValidationPasses(FieldOf(n), ValueOf(values[n])))
              => errors[n].message = RequiredMessage(FieldOf(n))

\* C25: after a submit, a number field whose input was cleared (it holds
\* the empty string the input writes) has the validation result of a field
\* that was never touched: no error when it is optional, the required
\* message when it is required.
C25_ClearedNumberIsAbsent ==
  \A n \in FieldNames(fields) :
    (/\ last.op = "submit"
     /\ FieldOf(n).type = "number" /\ ~FieldOf(n).disableError
     /\ values[n] = Vstr(""))
      => /\ errors[n] = ValidateField(FieldOf(n), Vundef)
         /\ ~FieldOf(n).required => errors[n] = NoError
         /\ FieldOf(n).required
              => errors[n].message = RequiredMessage(FieldOf(n))

\* the submit r can take its next step: the validation it awaits settles
CanProceed(r) ==
  ENABLED (ResolverSettles(r) \/ \E n \in Names : TriggerSettles(r, n))

\* the submit r takes its decision in this step
DecidesNow(r) == pending[r].phase # "done" /\ pending'[r].phase = "done"

\* C26: a submit started while another is under way cancels nothing: no
\* started submit is dropped or restarted, its captured input never changes,
\* and in the state a newly started submit leaves (read where reset leaves
\* it; reset is always possible and leaves the submits alone) each unfinished
\* submit of a form without a hanging validator can take its next step. Each submit decides once, on
\* its own: onSubmit is invoked exactly when that submit ends, and only
\* after its triggers, with one of the error maps it can read empty (the
\* one shown when it started or the one just written).
C26_OverlappingSubmits ==
  [][/\ Len(pending') >= Len(pending)
     /\ \A r \in DOMAIN pending :
          /\ pending'[r].input = pending[r].input
          /\ pending[r].phase = "done" => pending'[r] = pending[r]
          /\ pending[r].phase = "triggering" => pending'[r].phase # "resolving"
          /\ DecidesNow(r)
               => /\ last'.op = "submit"
                  /\ pending'[r].invoked = last'.invoked
                  /\ pending'[r].invoked
                       => /\ pending[r].phase = "triggering"
                          /\ \/ ~HasErrors(errors')
                             \/ ~HasErrors(pending[r].shown)
                  /\ ~pending'[r].invoked
                       => HasErrors(errors') \/ HasErrors(pending[r].shown)
                  /\ \A q \in DOMAIN pending : DecidesNow(q) => q = r
     /\ (last'.op = "submit" /\ last'.invoked)
          => \E r \in DOMAIN pending : DecidesNow(r)
     /\ \A r \in DOMAIN pending :
          (/\ last.op = "startSubmit" /\ last'.op = "reset"
           /\ pending[r].phase # "done"
           /\ \A i \in DOMAIN fields : fields[i].customValidation # "hangs")
            => CanProceed(r)]_vars

\* C26 witness: the second submit was started while the first was under
\* way, both have ended and both invoked onSubmit
C26_Witness ==
  /\ Len(pending) = 2 /\ pending[2].concurrent
  /\ pending[1].phase = "done" /\ pending[1].invoked
  /\ pending[2].phase = "done" /\ pending[2].invoked

\* C27: a submit decides when every trigger it issued has settled; a submit
\* that has ended has invoked onSubmit or left an error recorded; a submit
\* with a custom validator that never settles does not invoke onSubmit.
C27_JoinThenDecide ==
  /\ \A r \in DOMAIN pending :
       /\ pending[r].phase = "done" => pending[r].waiting = {}
       /\ ValidationPending(fields, pending[r].input) => ~pending[r].invoked
  /\ (last.op = "submit" /\ ~last.invoked) => HasErrors(errors)

\* C28: when onSubmit is invoked its data are the current values of the
\* session, and those values pass validation.
C28_SubmitsCurrentValues ==
  (last.op = "submit" /\ last.invoked)
    => /\ last.data = ResolverValues(fields, values)
       /\ ~HasErrors(ResolverErrors(fields, values))

\* C29: the value a checkbox without configured defaultValue holds after a
\* reset (its derived default) and the value a toggle writes are accepted by
\* the synthesized validator when the field is not required, and the value
\* written by checking the box is accepted when the field is required,
\* whichever of checkedValue and uncheckedValue are configured.
C29_CheckboxValuesAccepted ==
  [][\A n \in FieldNames(fields) :
       LET f == FieldOf(n)
           written == ValueOf(values'[n])
       IN (/\ f.type = "checkbox" /\ f.defaultValue = Vundef
           /\ \/ last'.op = "reset"
              \/ last'.op = "toggle" /\ last'.name = n)
            => /\ ~f.required => ValidateField(f, written) = NoError
               /\ (f.required /\ last'.op = "toggle" /\ IsChecked(f, written))
                     => ValidateField(f, written) = NoError]_vars

NoDuplicates(arr) == \A i, j \in DOMAIN arr : arr[i] = arr[j] => i = j

====
